---------------------------- MODULE Spec2Model ----------------------------
(***************************************************************************)
(* A model of emby_seen_status.py: the command-line entry point, the       *)
(* EmbySeen object (profile listing, per-profile fetch and merge, report   *)
(* building, table rendering) and the EmbyItem class family.               *)
(*                                                                         *)
(* Python strings that are compared, measured or formatted are sequences   *)
(* of code points; dictionaries are functions whose DOMAIN is the key set; *)
(* a dict that keeps insertion order and is iterated (movies, series,      *)
(* episodes) is the sequence of its values in insertion order.             *)
(***************************************************************************)
EXTENDS Integers, Sequences, FiniteSets, TLC

\* ------------------------------------------------------------- bounds
\* Item records served by the media service during one run, all profiles together.
MaxItems == 4
\* Profiles the media service lists.
MaxProfiles == 2

\* ------------------------------------------------------------ strings
None == "None"

Max(a, b) == IF a >= b THEN a ELSE b

Range(q) == {q[i] : i \in 1..Len(q)}

\* Python str < str: lexicographic on code points, a proper prefix is smaller.
RECURSIVE StrLess(_, _)
StrLess(a, b) ==
    IF b = <<>> THEN FALSE
    ELSE IF a = <<>> THEN TRUE
    ELSE IF Head(a) # Head(b) THEN Head(a) < Head(b)
    ELSE StrLess(Tail(a), Tail(b))

Spaces(n) == [i \in 1..n |-> 32]

\* f"{text:{width}}" for a string: left-aligned, padded with spaces, never cut.
PadRight(text, width) == text \o Spaces(Max(0, width - Len(text)))

RECURSIVE Decimal(_)
Decimal(n) == IF n < 10 THEN <<48 + n>> ELSE Decimal(n \div 10) \o <<48 + (n % 10)>>

\* f"{n:02d}" for n >= 0: decimal digits, zero-padded to at least two.
Format02d(n) == IF n < 10 THEN <<48, 48 + n>> ELSE Decimal(n)

\* "━" * n
Dashes(n) == [i \in 1..n |-> 9473]

TextType == <<84, 121, 112, 101>>
TextTitle == <<84, 105, 116, 108, 101>>
KindSeries == <<83, 101, 114, 105, 101, 115>>
KindEpisode == <<69, 112, 105, 115, 111, 100, 101>>
KindMovie == <<77, 111, 118, 105, 101>>

\* ---------------------------------------------------------- the inputs
NameA == <<65>>
NameB == <<66>>
NameFoo == <<70, 111, 111>>
NamePilot == <<80, 105, 108, 111, 116>>
NameP1 == <<80, 49>>
NameP2 == <<80, 50>>
SeasonOne == <<83, 49>>
SeasonZero == <<83, 48>>
SeasonUnknown == <<83, 63>>

EmptyDict == [k \in {} |-> k]

\* The command line (argparse): --server-url and --api-key, each given or not.
ArgsAll == [server_url : {None, "cli-host"}, api_key : {None, "cli-key"}]
ArgsBoth == [server_url |-> "cli-host", api_key |-> "cli-key"]
ArgsNeither == [server_url |-> None, api_key |-> None]

\* The 'emby' section of a configuration file.
EmbySections ==
    { EmptyDict,
      [host |-> "file-host"],
      [api_key |-> "file-key"],
      [host |-> "file-host", api_key |-> "file-key"] }

\* What yaml.safe_load returns for a configuration file: a mapping that may or
\* may not hold the keys 'emby' and 'hide_episodes'.
YamlWith(hides) ==
    {[emby |-> e] : e \in EmbySections}
        \cup {[emby |-> e, hide_episodes |-> h] : e \in EmbySections, h \in hides}
        \cup {[hide_episodes |-> h] : h \in hides}

\* The configuration file found (its path, None when there is none) and its content.
ConfigWith(hides) ==
    {[config_file |-> None, yaml |-> EmptyDict]}
        \cup {[config_file |-> "emby_seen_status.yaml", yaml |-> y] : y \in YamlWith(hides)}

NoFile == [config_file |-> None, yaml |-> EmptyDict]

\* A file with both settings and the given hide_episodes list.
FullFile(hide) ==
    [config_file |-> "emby_seen_status.yaml",
     yaml |-> [emby |-> [host |-> "file-host", api_key |-> "file-key"],
               hide_episodes |-> hide]]

\* A file that holds a hide_episodes list and no 'emby' section.
HideOnlyFile(hide) ==
    [config_file |-> "emby_seen_status.yaml", yaml |-> [hide_episodes |-> hide]]

\* The item records of the Items response (one JSON object each).
MovieRecord(id, name, played) ==
    [Type |-> "Movie", Id |-> id, Name |-> name, UserData |-> [Played |-> played]]

SeriesRecord(id, name, played) ==
    [Type |-> "Series", Id |-> id, Name |-> name, UserData |-> [Played |-> played]]

EpisodeRecord(id, name, played, sid, season, sname, ep) ==
    [Type |-> "Episode", Id |-> id, Name |-> name, UserData |-> [Played |-> played],
     SeriesId |-> sid, ParentIndexNumber |-> season, SeasonName |-> sname,
     IndexNumber |-> ep]

\* An episode record without the optional ParentIndexNumber.
EpisodeRecordNoSeason(id, name, played, sid, sname, ep) ==
    [Type |-> "Episode", Id |-> id, Name |-> name, UserData |-> [Played |-> played],
     SeriesId |-> sid, SeasonName |-> sname, IndexNumber |-> ep]

\* The profile lists the Users response may hold: ids 1..n, names from `names`.
UserLists(names) ==
    UNION {{[i \in 1..n |-> [Name |-> f[i], Id |-> i]] : f \in [1..n -> names]}
            : n \in 0..MaxProfiles}

\* -------------------------------------------------------------- state
VARIABLES
    pc,            \* where the run is: "main", "get_profiles", "profile_loop",
                   \* "items", "group", "display", "exit"
    args,          \* argparse's result
    config,        \* the configuration file found and its content
    server,        \* the media service: [users, library]
    c,             \* __main__'s c, EmbySeen.config
    host, api_key, \* EmbySeen.host, EmbySeen.api_key
    profiles,      \* EmbySeen.profiles
    requests,      \* the HTTP requests issued so far
    responses,     \* the item records received so far, one sequence per profile fetched
    pi,            \* the index in profiles of get_media_list's `profile`
    movies, series, episodes,   \* get_media_list's three dicts
    sorted_episodes,            \* the result of sorted(episodes.items(), ...)
    ei,            \* the index in sorted_episodes of the loop's `e`
    s,             \* get_media_list's s
    output, names, output_title_max_len, output_names_max_len,  \* EmbySeen's fields
    output_src,    \* for each row of output, the item it was built from
    stdout,        \* the lines written to standard output
    exit           \* how the process ended: [code, error], code -1 while running

vars == <<pc, args, config, server, c, host, api_key, profiles, requests, responses,
          pi, movies, series, episodes, sorted_episodes, ei, s, output, names,
          output_title_max_len, output_names_max_len, output_src, stdout, exit>>

envVars == <<args, config, server>>
mainVars == <<c>>
objectVars == <<host, api_key, profiles>>
mergeVars == <<responses, pi, movies, series, episodes>>
reportVars == <<sorted_episodes, ei, s, output, names, output_title_max_len,
                output_names_max_len, output_src>>

Running == [code |-> -1, error |-> "none"]

\* The state at process start, for a set of launches (a command line and a
\* configuration file each), of profile lists and of libraries.
InitWith(launches, userLists, libraries) ==
    /\ pc = "main"
    /\ \E l \in launches : args = l.args /\ config = l.config
    /\ server \in [users : userLists, library : libraries]
    /\ c = EmptyDict
    /\ host = None
    /\ api_key = None
    /\ profiles = <<>>
    /\ requests = <<>>
    /\ responses = <<>>
    /\ pi = 1
    /\ movies = <<>>
    /\ series = <<>>
    /\ episodes = <<>>
    /\ sorted_episodes = <<>>
    /\ ei = 1
    /\ s = <<>>
    /\ output = <<>>
    /\ names = <<>>
    /\ output_title_max_len = 0
    /\ output_names_max_len = 0
    /\ output_src = <<>>
    /\ stdout = <<>>
    /\ exit = Running

\* ------------------------------------------------------------ __main__
\* d[k] = v on a dict.
DictSet(d, k, v) == [x \in DOMAIN d \cup {k} |-> IF x = k THEN v ELSE d[x]]

\* c before the overrides: the default, or whatever the file holds.
LoadedConfig == IF config.config_file = None THEN [emby |-> EmptyDict] ELSE config.yaml

\* c after `if args.server_url: c['emby']['host'] = args.server_url`;
\* only evaluated where c['emby'] exists.
WithServerUrl(cfg) ==
    IF args.server_url # None
        THEN [cfg EXCEPT !.emby = DictSet(cfg.emby, "host", args.server_url)]
        ELSE cfg

WithApiKey(cfg) ==
    IF args.api_key # None
        THEN [cfg EXCEPT !.emby = DictSet(cfg.emby, "api_key", args.api_key)]
        ELSE cfg

MergedConfig == WithApiKey(WithServerUrl(LoadedConfig))

UsageLine == [line |-> "usage", cells |-> <<>>]

\* The sanity check of __main__.
MissingHostOrKey(cfg) == "host" \notin DOMAIN cfg.emby \/ "api_key" \notin DOMAIN cfg.emby

\* c['emby'] raises KeyError: the file holds no 'emby' section. The overrides
\* and the sanity check all subscript c['emby'], so one of them raises.
MainKeyError ==
    /\ pc = "main"
    /\ "emby" \notin DOMAIN LoadedConfig
    /\ c' = LoadedConfig
    /\ pc' = "exit"
    /\ exit' = [code |-> 1, error |-> "KeyError"]
    /\ UNCHANGED <<envVars, objectVars, requests, mergeVars, reportVars, stdout>>

\* The sanity check fails: the message is printed and sys.exit(1) is called.
MainUsageError ==
    /\ pc = "main"
    /\ "emby" \in DOMAIN LoadedConfig
    /\ MissingHostOrKey(MergedConfig)
    /\ c' = MergedConfig
    /\ stdout' = Append(stdout, UsageLine)
    /\ pc' = "exit"
    /\ exit' = [code |-> 1, error |-> "SystemExit"]
    /\ UNCHANGED <<envVars, objectVars, requests, mergeVars, reportVars>>

\* The sanity check passes: EmbySeen(c) is constructed up to its call of get_profiles.
MainOk ==
    /\ pc = "main"
    /\ "emby" \in DOMAIN LoadedConfig
    /\ ~MissingHostOrKey(MergedConfig)
    /\ c' = MergedConfig
    /\ host' = MergedConfig.emby.host
    /\ api_key' = MergedConfig.emby.api_key
    /\ pc' = "get_profiles"
    /\ UNCHANGED <<envVars, profiles, requests, mergeVars, reportVars, stdout, exit>>

\* ---------------------------------------------------- the item classes
\* EmbyItem.__init__
EmbyItem(item_data, profile) ==
    [class |-> "EmbyItem",
     name |-> item_data.Name,
     id |-> item_data.Id,
     profile |-> profile,
     seen_by |-> IF item_data.UserData.Played THEN <<profile.name>> ELSE <<>>]

\* EmbySeries.__init__
EmbySeries(item_data, profile) ==
    [EmbyItem(item_data, profile) EXCEPT !.class = "EmbySeries"]

\* EmbyEpisode.__init__
EmbyEpisode(item_data, profile) ==
    LET base == EmbyItem(item_data, profile)
    IN  [class |-> "EmbyEpisode",
         name |-> base.name,
         id |-> base.id,
         profile |-> base.profile,
         seen_by |-> base.seen_by,
         series_id |-> item_data.SeriesId,
         season |-> IF "ParentIndexNumber" \in DOMAIN item_data
                        THEN item_data.ParentIndexNumber
                        ELSE 0,
         season_name |-> item_data.SeasonName,
         episode |-> item_data.IndexNumber]

\* EmbyItem.create_from_dict
CreateFromDict(item_data, profile) ==
    IF item_data.Type = "Episode" THEN EmbyEpisode(item_data, profile)
    ELSE IF item_data.Type = "Series" THEN EmbySeries(item_data, profile)
    ELSE EmbyItem(item_data, profile)

\* ------------------------------------------------------- get_profiles
EmbyProfile(user_data) == [name |-> user_data.Name, id |-> user_data.Id]

UsersRequest == [url |-> "Users", host |-> host, api_key |-> api_key, profile |-> 0]

\* raise_for_status raises: the Users request failed.
GetProfilesFail ==
    /\ pc = "get_profiles"
    /\ requests' = Append(requests, UsersRequest)
    /\ pc' = "exit"
    /\ exit' = [code |-> 1, error |-> "HTTPError"]
    /\ UNCHANGED <<envVars, mainVars, objectVars, mergeVars, reportVars, stdout>>

GetProfilesOk ==
    /\ pc = "get_profiles"
    /\ requests' = Append(requests, UsersRequest)
    /\ profiles' = [i \in 1..Len(server.users) |-> EmbyProfile(server.users[i])]
    /\ pc' = "profile_loop"
    /\ UNCHANGED <<envVars, mainVars, host, api_key, mergeVars, reportVars, stdout, exit>>

\* ----------------------------------------------- get_media_list: merge
ItemsRequest(profile) ==
    [url |-> "Items", host |-> host, api_key |-> api_key, profile |-> profile.id]

\* The item records received in the run so far.
RECURSIVE TotalLen(_)
TotalLen(qs) == IF qs = <<>> THEN 0 ELSE Len(Head(qs)) + TotalLen(Tail(qs))

\* `item.id in d` for one of the three dicts.
HasId(d, id) == \E i \in 1..Len(d) : d[i].id = id

\* d[id]
Lookup(d, id) == d[CHOOSE i \in 1..Len(d) : d[i].id = id]

\* MergeItem with the test of item.seen_by dropped: a later sighting's profile
\* is appended whether it played the item or not.
MergeItemAlwaysAppend(d, item, profile) ==
    IF HasId(d, item.id)
        THEN [i \in 1..Len(d) |->
                 IF d[i].id = item.id
                     THEN [d[i] EXCEPT !.seen_by = Append(@, profile.name)]
                     ELSE d[i]]
        ELSE Append(d, item)

\* MergeItem storing the later sighting in place of the item already there.
MergeItemOverwrite(d, item, profile) ==
    IF HasId(d, item.id)
        THEN [i \in 1..Len(d) |-> IF d[i].id = item.id THEN item ELSE d[i]]
        ELSE Append(d, item)

\* One branch of the if/elif/else of get_media_list's inner loop, on its dict.
MergeItem(d, item, profile) ==
    IF HasId(d, item.id)
        THEN IF item.seen_by # <<>>
                 THEN [i \in 1..Len(d) |->
                          IF d[i].id = item.id
                              THEN [d[i] EXCEPT !.seen_by = Append(@, profile.name)]
                              ELSE d[i]]
                 ELSE d
        ELSE Append(d, item)

\* RequestItemsFail with the failure swallowed: the profile is skipped.
RequestItemsFailSkip ==
    /\ pc = "profile_loop"
    /\ pi <= Len(profiles)
    /\ requests' = Append(requests, ItemsRequest(profiles[pi]))
    /\ pi' = pi + 1
    /\ UNCHANGED <<envVars, mainVars, objectVars, responses, movies, series, episodes,
                   pc, reportVars, stdout, exit>>

\* raise_for_status raises: the Items request of the current profile failed.
RequestItemsFail ==
    /\ pc = "profile_loop"
    /\ pi <= Len(profiles)
    /\ requests' = Append(requests, ItemsRequest(profiles[pi]))
    /\ pc' = "exit"
    /\ exit' = [code |-> 1, error |-> "HTTPError"]
    /\ UNCHANGED <<envVars, mainVars, objectVars, mergeVars, reportVars, stdout>>

RequestItemsOk ==
    /\ pc = "profile_loop"
    /\ pi <= Len(profiles)
    /\ requests' = Append(requests, ItemsRequest(profiles[pi]))
    /\ responses' = Append(responses, <<>>)
    /\ pc' = "items"
    /\ UNCHANGED <<envVars, mainVars, objectVars, pi, movies, series, episodes,
                   reportVars, stdout, exit>>

\* One iteration of `for item_data in re.json()['Items']`: the response's next record.
ProcessItem ==
    /\ pc = "items"
    /\ TotalLen(responses) < MaxItems
    /\ \E item_data \in server.library :
          LET profile == profiles[pi]
              item == CreateFromDict(item_data, profile)
          IN  /\ responses' = [responses EXCEPT ![pi] = Append(@, item_data)]
              /\ episodes' = IF item.class = "EmbyEpisode"
                                 THEN MergeItem(episodes, item, profile)
                                 ELSE episodes
              /\ series' = IF item.class = "EmbySeries"
                               THEN MergeItem(series, item, profile)
                               ELSE series
              /\ movies' = IF item.class \notin {"EmbyEpisode", "EmbySeries"}
                               THEN MergeItem(movies, item, profile)
                               ELSE movies
    /\ UNCHANGED <<envVars, mainVars, objectVars, requests, pi, pc, reportVars,
                   stdout, exit>>

\* The response holds no further record: on to the next profile.
EndOfItems ==
    /\ pc = "items"
    /\ pi' = pi + 1
    /\ pc' = "profile_loop"
    /\ UNCHANGED <<envVars, mainVars, objectVars, requests, responses, movies, series,
                   episodes, reportVars, stdout, exit>>

\* ---------------------------------------------- get_media_list: report
\* sorted(q, key=...): stable, by the key's `<`, given as the set of the pairs
\* <<i, j>> of places with key(q[i]) < key(q[j]).
StableSort(q, less) ==
    LET n == Len(q)
        pos(i) == 1 + Cardinality({j \in 1..n :
                          \/ <<j, i>> \in less
                          \/ j < i /\ <<i, j>> \notin less})
    IN  [k \in 1..n |-> q[CHOOSE i \in 1..n : pos(i) = k]]

\* series[e.series_id]
SeriesOf(e) == Lookup(series, e.series_id)

\* The sort key of an episode: (series name, season, season_name, episode).
EpisodeKey(e) == <<SeriesOf(e).name, e.season, e.season_name, e.episode>>

\* Python's tuple `<` on two episode keys.
KeyLess(k1, k2) ==
    IF k1[1] # k2[1] THEN StrLess(k1[1], k2[1])
    ELSE IF k1[2] # k2[2] THEN k1[2] < k2[2]
    ELSE IF k1[3] # k2[3] THEN StrLess(k1[3], k2[3])
    ELSE k1[4] < k2[4]

\* EpisodeLess on the series name alone.
EpisodeLessByName(e1, e2) == StrLess(SeriesOf(e1).name, SeriesOf(e2).name)

EpisodeLess(e1, e2) == KeyLess(EpisodeKey(e1), EpisodeKey(e2))

MovieLess(m1, m2) == StrLess(m1.name, m2.name)

\* The key order on the places of the episodes dict and of the movies dict.
EpisodePairs ==
    {ij \in (1..Len(episodes)) \X (1..Len(episodes)) :
        EpisodeLess(episodes[ij[1]], episodes[ij[2]])}

MoviePairs ==
    {ij \in (1..Len(movies)) \X (1..Len(movies)) : MovieLess(movies[ij[1]], movies[ij[2]])}

\* The key function raises KeyError: some episode's series_id is not in series.
OrphanEpisode == \E i \in 1..Len(episodes) : ~HasId(series, episodes[i].series_id)

\* The inner loop of output_append over item[2].
RECURSIVE AddNames(_, _)
AddNames(out, seen_by) ==
    IF seen_by = <<>> THEN out
    ELSE LET name == Head(seen_by)
             next == IF name \notin Range(out.names)
                         THEN [out EXCEPT
                                 !.names = Append(@, name),
                                 !.output_names_max_len = Max(@, Len(name))]
                         ELSE out
         IN  AddNames(next, Tail(seen_by))

\* EmbySeen.output_append, on the four fields it touches.
OutputAppend(out, item) ==
    LET widened == [out EXCEPT !.output_title_max_len = Max(@, Len(item[2]))]
        named == AddNames(widened, item[3])
    IN  [named EXCEPT !.output = Append(@, item)]

Out == [output |-> output, names |-> names,
        output_title_max_len |-> output_title_max_len,
        output_names_max_len |-> output_names_max_len]

SetOut(out) ==
    /\ output' = out.output
    /\ names' = out.names
    /\ output_title_max_len' = out.output_title_max_len
    /\ output_names_max_len' = out.output_names_max_len

\* The title of an Episode row.
EpisodeTitle(e) ==
    SeriesOf(e).name \o <<32, 91>> \o Format02d(e.season) \o <<120>>
        \o Format02d(e.episode) \o <<93, 32>> \o e.name

SeriesRow(e) == <<KindSeries, SeriesOf(e).name, SeriesOf(e).seen_by>>
EpisodeRow(e) == <<KindEpisode, EpisodeTitle(e), e.seen_by>>
MovieRow(m) == <<KindMovie, m.name, m.seen_by>>

\* NewSeries without the comparison: a Series row for every episode.
AlwaysNewSeries(e) == TRUE

\* `if s != series[e.series_id].name`
NewSeries(e) == s # SeriesOf(e).name

\* Hidden without the test: no series is hidden.
NeverHidden(name) == FALSE

\* `if s not in self.config['hide_episodes']`, s already updated.
Hidden(name) == name \in c.hide_episodes

\* sorted() raises KeyError on an orphan episode.
SortKeyError ==
    /\ pc = "profile_loop"
    /\ pi > Len(profiles)
    /\ OrphanEpisode
    /\ pc' = "exit"
    /\ exit' = [code |-> 1, error |-> "KeyError"]
    /\ UNCHANGED <<envVars, mainVars, objectVars, requests, mergeVars, reportVars, stdout>>

SortOk ==
    /\ pc = "profile_loop"
    /\ pi > Len(profiles)
    /\ ~OrphanEpisode
    /\ sorted_episodes' = StableSort(episodes, EpisodePairs)
    /\ s' = <<>>
    /\ ei' = 1
    /\ pc' = "group"
    /\ UNCHANGED <<envVars, mainVars, objectVars, requests, mergeVars, output, names,
                   output_title_max_len, output_names_max_len, output_src, stdout, exit>>

\* The state of the output after the Series row of e, if one is due.
AfterSeriesRow(e) == IF NewSeries(e) THEN OutputAppend(Out, SeriesRow(e)) ELSE Out

SrcAfterSeriesRow(e) ==
    IF NewSeries(e) THEN Append(output_src, <<"series", e.series_id>>) ELSE output_src

\* One iteration of the loop over the sorted episodes in which
\* self.config['hide_episodes'] raises KeyError: the configuration has no such key.
GroupKeyError ==
    /\ pc = "group"
    /\ ei <= Len(sorted_episodes)
    /\ "hide_episodes" \notin DOMAIN c
    /\ LET e == sorted_episodes[ei]
       IN  /\ s' = SeriesOf(e).name
           /\ SetOut(AfterSeriesRow(e))
           /\ output_src' = SrcAfterSeriesRow(e)
    /\ pc' = "exit"
    /\ exit' = [code |-> 1, error |-> "KeyError"]
    /\ UNCHANGED <<envVars, mainVars, objectVars, requests, mergeVars, sorted_episodes,
                   ei, stdout>>

\* One iteration of the loop over the sorted episodes.
GroupStep ==
    /\ pc = "group"
    /\ ei <= Len(sorted_episodes)
    /\ "hide_episodes" \in DOMAIN c
    /\ LET e == sorted_episodes[ei]
           shown == ~Hidden(SeriesOf(e).name)
       IN  /\ s' = SeriesOf(e).name
           /\ SetOut(IF shown
                         THEN OutputAppend(AfterSeriesRow(e), EpisodeRow(e))
                         ELSE AfterSeriesRow(e))
           /\ output_src' = IF shown
                                THEN Append(SrcAfterSeriesRow(e), <<"episode", e.id>>)
                                ELSE SrcAfterSeriesRow(e)
    /\ ei' = ei + 1
    /\ UNCHANGED <<envVars, mainVars, objectVars, requests, mergeVars, sorted_episodes,
                   pc, stdout, exit>>

RECURSIVE AppendMovies(_, _)
AppendMovies(out, ms) ==
    IF ms = <<>> THEN out
    ELSE AppendMovies(OutputAppend(out, MovieRow(Head(ms))), Tail(ms))

\* The loop over the sorted movies.
EmitMovies ==
    /\ pc = "group"
    /\ ei > Len(sorted_episodes)
    /\ LET ms == StableSort(movies, MoviePairs)
       IN  /\ SetOut(AppendMovies(Out, ms))
           /\ output_src' = output_src \o [i \in 1..Len(ms) |-> <<"movie", ms[i].id>>]
    /\ pc' = "display"
    /\ UNCHANGED <<envVars, mainVars, objectVars, requests, mergeVars, sorted_episodes,
                   ei, s, stdout, exit>>

\* ------------------------------------------------------ display_output
\* A border line: the runs of dashes between its corner and junction characters.
BorderLine(kind) ==
    [line |-> kind,
     cells |-> <<Dashes(9), Dashes(output_title_max_len + 2)>>
                 \o [i \in 1..Len(names) |-> Dashes(output_names_max_len + 2)]]

HeaderLine ==
    [line |-> "header",
     cells |-> <<TextType \o Spaces(4), PadRight(TextTitle, output_title_max_len)>>
                 \o [i \in 1..Len(names) |-> PadRight(names[i], output_names_max_len)]]

\* RowLine with every profile column marked.
RowLineAllMarked(item) ==
    [line |-> "row",
     cells |-> <<PadRight(item[1], 7), PadRight(item[2], output_title_max_len)>>
                 \o [i \in 1..Len(names) |-> PadRight(names[i], output_names_max_len)]]

\* The line of one item: its cells between the vertical bars, without the
\* single spaces around them.
RowLine(item) ==
    [line |-> "row",
     cells |-> <<PadRight(item[1], 7), PadRight(item[2], output_title_max_len)>>
                 \o [i \in 1..Len(names) |->
                        IF names[i] \in Range(item[3])
                            THEN PadRight(names[i], output_names_max_len)
                            ELSE PadRight(<<>>, output_names_max_len)]]

RECURSIVE ItemLines(_)
ItemLines(items) ==
    IF items = <<>> THEN <<>>
    ELSE <<BorderLine("separator"), RowLine(Head(items))>> \o ItemLines(Tail(items))

TableLines == <<BorderLine("top"), HeaderLine>> \o ItemLines(output) \o <<BorderLine("bottom")>>

\* EmbySeen.display_output, and the normal end of the process after it.
DisplayOutput ==
    /\ pc = "display"
    /\ stdout' = stdout \o TableLines
    /\ pc' = "exit"
    /\ exit' = [code |-> 0, error |-> "none"]
    /\ UNCHANGED <<envVars, mainVars, objectVars, requests, mergeVars, reportVars>>

\* ------------------------------------------------------ specifications
Next ==
    \/ MainKeyError
    \/ MainUsageError
    \/ MainOk
    \/ GetProfilesFail
    \/ GetProfilesOk
    \/ RequestItemsFail
    \/ RequestItemsOk
    \/ ProcessItem
    \/ EndOfItems
    \/ SortKeyError
    \/ SortOk
    \/ GroupKeyError
    \/ GroupStep
    \/ EmitMovies
    \/ DisplayOutput

\* Every command line with every configuration file, against a service with
\* one movie, one series and one of its episodes.
LibraryMain ==
    { MovieRecord(1, NameFoo, TRUE),
      SeriesRecord(1, NameA, TRUE),
      EpisodeRecord(1, NamePilot, TRUE, 1, 1, SeasonOne, 1) }

LaunchesMain == [args : ArgsAll, config : ConfigWith({{NameA}})]

Init == InitWith(LaunchesMain, UserLists({NameP1}), {LibraryMain})

Spec == Init /\ [][Next]_vars

\* Profiles that may share a name, each item played or not: the aggregation.
LibraryAgg ==
    { MovieRecord(1, NameFoo, TRUE),
      MovieRecord(1, NameFoo, FALSE),
      SeriesRecord(1, NameA, TRUE),
      EpisodeRecord(1, NamePilot, TRUE, 1, 1, SeasonOne, 1) }

\* Launches that fail in __main__, or later for want of hide_episodes.
LaunchesFailing ==
    { [args |-> ArgsBoth, config |-> NoFile],
      [args |-> ArgsNeither, config |-> NoFile],
      [args |-> ArgsNeither, config |-> HideOnlyFile({})] }

OneUser == {<<[Name |-> NameP1, Id |-> 1]>>}

\* The profile lists whose first profile is named P1 (the code never compares
\* profile names but for equality, so the other half is the same up to renaming).
UserListsAgg == {u \in UserLists({NameP1, NameP2}) : u = <<>> \/ u[1].Name = NameP1}

InitAgg ==
    \/ InitWith(LaunchesFailing, OneUser, {LibraryAgg})
    \/ InitWith({[args |-> ArgsNeither, config |-> FullFile({})]}, UserListsAgg,
                {LibraryAgg})

SpecAgg == InitAgg /\ [][Next]_vars

\* Two series, named n1 and n2, and their episodes: the report.
LibraryReport(n1, n2) ==
    { SeriesRecord(1, n1, TRUE),
      SeriesRecord(2, n2, FALSE),
      EpisodeRecord(1, NamePilot, TRUE, 1, 1, SeasonOne, 2),
      EpisodeRecord(2, NamePilot, FALSE, 1, 1, SeasonOne, 1),
      EpisodeRecord(4, NamePilot, FALSE, 1, 1, SeasonZero, 3),
      EpisodeRecordNoSeason(3, NamePilot, FALSE, 2, SeasonUnknown, 1) }

LibrariesReport ==
    { LibraryReport(NameB, NameA), LibraryReport(NameA, NameA), LibraryReport(<<>>, NameA) }

LaunchesReport ==
    LaunchesFailing \cup
    { [args |-> ArgsNeither, config |-> FullFile({})],
      [args |-> ArgsNeither, config |-> FullFile({NameA})],
      [args |-> ArgsNeither, config |-> FullFile({<<>>, NameA})] }

InitReport == InitWith(LaunchesReport, OneUser, LibrariesReport)

SpecReport == InitReport /\ [][Next]_vars

\* ------------------------------------------------- notions of the claims
\* The dict an item record is merged into.
Variant(item_data) ==
    IF item_data.Type = "Episode" THEN "episode"
    ELSE IF item_data.Type = "Series" THEN "series"
    ELSE "movie"

Dict(variant) ==
    IF variant = "episode" THEN episodes
    ELSE IF variant = "series" THEN series
    ELSE movies

Variants == {"movie", "series", "episode"}

\* The places of the records of one item in the response of the p-th profile.
Sightings(variant, id, p) ==
    {k \in 1..Len(responses[p]) :
        Variant(responses[p][k]) = variant /\ responses[p][k].Id = id}

\* Whether the p-th profile's response holds the item with Played true.
Played(variant, id, p) ==
    \E k \in Sightings(variant, id, p) : responses[p][k].UserData.Played

\* The names of the profiles whose response holds the item with Played true:
\* a function of the set of (profile name, response) pairs, not of their order.
PlayedBy(variant, id) ==
    {profiles[p].name : p \in {q \in 1..Len(responses) : Played(variant, id, q)}}

\* The ids of the items of a variant that some response received so far holds.
ListedIds(variant) ==
    UNION {{responses[p][k].Id :
               k \in {j \in 1..Len(responses[p]) : Variant(responses[p][j]) = variant}}
            : p \in 1..Len(responses)}

Ids(d) == {d[i].id : i \in 1..Len(d)}

IsPrefix(q1, q2) == Len(q1) <= Len(q2) /\ \A i \in 1..Len(q1) : q1[i] = q2[i]

\* Some line of the table is on standard output.
TablePrinted == \E k \in 1..Len(stdout) : stdout[k].line # "usage"

\* display_output was reached and the process ended normally.
Displayed == pc = "exit" /\ exit.code = 0

\* The places in output of the rows of a kind.
Rows(kind) == {k \in 1..Len(output) : output[k][1] = kind}

\* The episode an Episode row was built from.
EpisodeAt(k) == Lookup(episodes, output_src[k][2])

\* The name of the series a Series or Episode row belongs to.
SeriesNameAt(k) ==
    IF output_src[k][1] = "episode" THEN SeriesOf(EpisodeAt(k)).name
    ELSE Lookup(series, output_src[k][2]).name

\* The series that have an episode in the episodes dict.
SeriesWithEpisodes ==
    {i \in 1..Len(series) : \E j \in 1..Len(episodes) : episodes[j].series_id = series[i].id}

\* The first episode, in sorted order, of a series of the given name.
FirstEpisodeOf(name) ==
    sorted_episodes[CHOOSE k \in 1..Len(sorted_episodes) :
        /\ SeriesOf(sorted_episodes[k]).name = name
        /\ \A j \in 1..(k - 1) : SeriesOf(sorted_episodes[j]).name # name]

\* The line of the table that shows the k-th row of output.
LineOfRow(k) == stdout[2 * k + 2]

\* --------------------------------------------------------------- claims
\* C1: at every point of the aggregation, for every item of the movies, series
\* and episodes dicts, the set of names in its seen_by is the set of names of the
\* profiles whose response held that item id, in that variant, with Played true;
\* the dicts hold exactly the ids listed. The right-hand side depends on the set
\* of (profile name, response) pairs only, so any order of the profiles gives
\* the same sets.
C1_SeenByIsPlayedSet ==
    \A v \in Variants :
        /\ Ids(Dict(v)) = ListedIds(v)
        /\ \A i \in 1..Len(Dict(v)) :
              Range(Dict(v)[i].seen_by) = PlayedBy(v, Dict(v)[i].id)

\* A run that ended normally in which two profiles of different names both
\* listed the movie, the first not played and the second played.
C1_Witness ==
    /\ Displayed
    /\ Len(profiles) = 2
    /\ profiles[1].name # profiles[2].name
    /\ Sightings("movie", 1, 1) # {} /\ ~Played("movie", 1, 1)
    /\ Played("movie", 1, 2)
    /\ Lookup(movies, 1).seen_by = <<profiles[2].name>>

\* C2: in every state, no seen_by of an item of the three dicts holds a profile
\* name more than once.
C2_NoDuplicateNames ==
    \A v \in Variants : \A i \in 1..Len(Dict(v)) :
        LET q == Dict(v)[i].seen_by
        IN  \A a, b \in 1..Len(q) : a # b => q[a] # q[b]

\* C3: a run that fails (a request fails, or an episode's series is not in the
\* series dict when the episodes are sorted) ends with a non-zero status and no
\* line of the table on standard output, and nothing follows the end of the
\* process; the table is on standard output only after every profile was
\* requested and merged and with every episode's series in the series dict,
\* and then it is the whole table.
C3_AllOrNothing ==
    /\ exit.error # "none" => pc = "exit" /\ exit.code # 0 /\ ~TablePrinted
    /\ (pi > Len(profiles) /\ OrphanEpisode) => pc \in {"profile_loop", "exit"} /\ ~TablePrinted
    /\ pc = "exit" => ~ENABLED Next
    /\ TablePrinted =>
          /\ exit = [code |-> 0, error |-> "none"]
          /\ Len(responses) = Len(profiles)
          /\ pi = Len(profiles) + 1
          /\ Len(requests) = Len(profiles) + 1
          /\ ~OrphanEpisode
          /\ stdout = TableLines

\* A run that failed on a request after a first profile's items were merged.
C3_Witness ==
    /\ pc = "exit"
    /\ exit.error = "HTTPError"
    /\ Len(responses) >= 1
    /\ Len(movies) + Len(series) + Len(episodes) >= 1
    /\ stdout = <<>>

\* The scenario of C4: exactly two profiles, of different names; p1's response
\* lists the movie once, played, and p2's lists it once, not played; the run
\* reached display_output.
C4_Scenario(p1, p2, id) ==
    /\ Displayed
    /\ DOMAIN profiles = {p1, p2}
    /\ p1 # p2
    /\ profiles[p1].name # profiles[p2].name
    /\ Cardinality(Sightings("movie", id, p1)) = 1 /\ Played("movie", id, p1)
    /\ Cardinality(Sightings("movie", id, p2)) = 1 /\ ~Played("movie", id, p2)

\* The places in output of the Movie rows of a movie.
MovieRowsOf(id) == {k \in Rows(KindMovie) : output_src[k] = <<"movie", id>>}

\* The place in names of a name that is in names.
Column(name) == CHOOSE i \in 1..Len(names) : names[i] = name

\* The cell of the line of row k in the column of a profile name.
Cell(k, name) == LineOfRow(k).cells[2 + Column(name)]

\* C4 as stated: in the scenario the output holds exactly one Movie row of the
\* movie, with seen_by = [P1]; the table has a column for P1 and one for P2, and
\* the row's line shows P1's name in P1's column and blanks in P2's.
C4_AsStated ==
    \A p1, p2 \in 1..MaxProfiles : \A id \in Ids(movies) :
        C4_Scenario(p1, p2, id) =>
            /\ Cardinality(MovieRowsOf(id)) = 1
            /\ \A k \in MovieRowsOf(id) :
                  /\ output[k][3] = <<profiles[p1].name>>
                  /\ profiles[p1].name \in Range(names)
                  /\ profiles[p2].name \in Range(names)
                  /\ Cell(k, profiles[p1].name)
                        = PadRight(profiles[p1].name, output_names_max_len)
                  /\ Cell(k, profiles[p2].name) = Spaces(output_names_max_len)

\* C4 as amended: in the scenario the output holds exactly one Movie row of the
\* movie, with seen_by = [P1]; the table has a column for P1, in which the row's
\* line shows P1's name; it has a column for P2 exactly when P2's name is in the
\* seen_by of some row of the output, and then the row's line shows blanks in it;
\* the line has one cell for each name in names and no other profile cell.
C4_MovieRow ==
    \A p1, p2 \in 1..MaxProfiles : \A id \in Ids(movies) :
        C4_Scenario(p1, p2, id) =>
            /\ Cardinality(MovieRowsOf(id)) = 1
            /\ \A k \in MovieRowsOf(id) :
                  /\ output[k][3] = <<profiles[p1].name>>
                  /\ profiles[p1].name \in Range(names)
                  /\ Cell(k, profiles[p1].name)
                        = PadRight(profiles[p1].name, output_names_max_len)
                  /\ profiles[p2].name \in Range(names)
                        <=> \E j \in 1..Len(output) : profiles[p2].name \in Range(output[j][3])
                  /\ profiles[p2].name \in Range(names)
                        => Cell(k, profiles[p2].name) = Spaces(output_names_max_len)
                  /\ Len(LineOfRow(k).cells) = 2 + Len(names)

\* The scenario of C4 in a run where P2 has played something else, so that the
\* table has a column for P2.
C4_Witness ==
    \E p1, p2 \in 1..MaxProfiles :
        /\ C4_Scenario(p1, p2, 1)
        /\ profiles[p2].name \in Range(names)
        /\ \A k \in MovieRowsOf(1) :
              Cell(k, profiles[p2].name) = Spaces(output_names_max_len)

\* The tuple order of the claim: (series name, season, season_name, episode),
\* k1 not after k2.
C5_NotAfter(k1, k2) ==
    \/ StrLess(k1[1], k2[1])
    \/ /\ k1[1] = k2[1]
       /\ \/ k1[2] < k2[2]
          \/ /\ k1[2] = k2[2]
             /\ \/ StrLess(k1[3], k2[3])
                \/ k1[3] = k2[3] /\ k1[4] <= k2[4]

C5_Key(e) == <<Lookup(series, e.series_id).name, e.season, e.season_name, e.episode>>

\* C5: the Episode rows of output are in non-decreasing order of the tuple
\* (series name, season, season_name, episode); of two Episode rows of one series
\* and one season (the same season number and season name) the lower episode
\* number comes first; every Series or Episode row of a series whose name sorts
\* earlier precedes every such row of a series whose name sorts later.
C5_EpisodeOrder ==
    /\ \A i, j \in Rows(KindEpisode) :
          i < j => C5_NotAfter(C5_Key(EpisodeAt(i)), C5_Key(EpisodeAt(j)))
    /\ \A i, j \in Rows(KindEpisode) :
          (/\ i < j
           /\ EpisodeAt(i).series_id = EpisodeAt(j).series_id
           /\ EpisodeAt(i).season = EpisodeAt(j).season
           /\ EpisodeAt(i).season_name = EpisodeAt(j).season_name)
              => EpisodeAt(i).episode <= EpisodeAt(j).episode
    /\ \A i, j \in Rows(KindSeries) \cup Rows(KindEpisode) :
          StrLess(SeriesNameAt(i), SeriesNameAt(j)) => i < j

\* A run that ended normally whose output lists two episodes of one series and
\* season in the order of their episode numbers, the reverse of the order in
\* which they were received.
C5_Witness ==
    /\ Displayed
    /\ \E i, j \in Rows(KindEpisode) :
          /\ i < j
          /\ EpisodeAt(i).series_id = EpisodeAt(j).series_id
          /\ EpisodeAt(i).season = EpisodeAt(j).season
          /\ EpisodeAt(i).episode < EpisodeAt(j).episode
          /\ \E a, b \in 1..Len(episodes) :
                a < b /\ episodes[a] = EpisodeAt(j) /\ episodes[b] = EpisodeAt(i)

\* The Episode rows of the series of a name.
EpisodeRowsOfName(name) == {k \in Rows(KindEpisode) : SeriesNameAt(k) = name}

\* The Series rows with a title.
SeriesRowsTitled(name) == {k \in Rows(KindSeries) : output[k][2] = name}

\* Whether no other series that has an episode bears the name of series[i].
UniqueName(i) == \A j \in SeriesWithEpisodes : series[j].name = series[i].name => j = i

\* C6 as stated: when the run reaches display_output, for every series that has
\* an episode and whose name is in hide_episodes, the output holds no Episode row
\* of a series of that name and holds a Series row with the series's name and
\* the series's own seen_by.
C6_AsStated ==
    Displayed =>
        \A i \in SeriesWithEpisodes :
            series[i].name \in c.hide_episodes =>
                /\ EpisodeRowsOfName(series[i].name) = {}
                /\ \E k \in Rows(KindSeries) :
                      output[k] = <<KindSeries, series[i].name, series[i].seen_by>>

\* C6 as amended: when the run reaches display_output, for every series that has
\* an episode and whose name is in hide_episodes, the output holds no Episode row
\* of a series of that name; if the name is empty it holds no Series row of that
\* title; otherwise it holds exactly one Series row of that title, whose seen_by
\* is that of the series of the first episode, in sorted order, of a series of
\* that name, which is the series's own when no other series that has an
\* episode bears the name.
C6_Hidden ==
    Displayed =>
        \A i \in SeriesWithEpisodes :
            LET n == series[i].name
            IN  n \in c.hide_episodes =>
                    /\ EpisodeRowsOfName(n) = {}
                    /\ IF n = <<>>
                          THEN SeriesRowsTitled(n) = {}
                          ELSE /\ Cardinality(SeriesRowsTitled(n)) = 1
                               /\ \A k \in SeriesRowsTitled(n) :
                                     /\ output[k][3] = SeriesOf(FirstEpisodeOf(n)).seen_by
                                     /\ UniqueName(i) => output[k][3] = series[i].seen_by

\* A run that ended normally with a hidden series, whose Series row is there
\* and whose episodes are not, and another series whose episodes are shown.
C6_Witness ==
    /\ Displayed
    /\ \E i \in SeriesWithEpisodes :
          /\ series[i].name \in c.hide_episodes
          /\ series[i].name # <<>>
          /\ SeriesRowsTitled(series[i].name) # {}
          /\ EpisodeRowsOfName(series[i].name) = {}
    /\ Rows(KindEpisode) # {}

\* One step of the merge on a dict: every item stays, and its seen_by before
\* the step is a prefix of its seen_by after.
MonotoneDict(before, after) ==
    \A i \in 1..Len(before) :
        /\ HasId(after, before[i].id)
        /\ IsPrefix(before[i].seen_by, Lookup(after, before[i].id).seen_by)

\* C7: in every step, each item of each of the three dicts stays in its dict and
\* keeps its seen_by as a prefix of the new one: no name is removed, and seen_by
\* is not overwritten, emptied or shortened.
C7_Monotone ==
    [][/\ MonotoneDict(movies, movies')
       /\ MonotoneDict(series, series')
       /\ MonotoneDict(episodes, episodes')]_vars

\* The movie was played by the first profile and then listed, not played, by the
\* second: the later sighting left the first profile's name in seen_by.
C7_Witness ==
    /\ Len(responses) = 2
    /\ Played("movie", 1, 1)
    /\ Sightings("movie", 1, 2) # {} /\ ~Played("movie", 1, 2)
    /\ Lookup(movies, 1).seen_by # <<>>
    /\ Lookup(movies, 1).seen_by[1] = profiles[1].name

\* Host or API key is unset in c after the merge of file and command line.
Unset(cfg) == "emby" \notin DOMAIN cfg \/ MissingHostOrKey(cfg)

\* C8: once __main__ is past its configuration, a host or an API key given on
\* the command line is the one in c; and if host or API key is unset in c, the
\* run has ended with the usage message on standard output, status 1 by
\* sys.exit, and no HTTP request issued.
C8_AsStated ==
    pc # "main" =>
        /\ args.server_url # None =>
              ~Unset(c) /\ c.emby.host = args.server_url
        /\ args.api_key # None =>
              ~Unset(c) /\ c.emby.api_key = args.api_key
        /\ Unset(c) =>
              /\ pc = "exit"
              /\ exit = [code |-> 1, error |-> "SystemExit"]
              /\ stdout = <<UsageLine>>
              /\ requests = <<>>

\* C10: a run that has ended with host and API key set, no request failed and
\* every episode's series in the series dict, has ended with status 0 and the
\* table on standard output.
C10_AsStated ==
    (/\ pc = "exit"
     /\ ~Unset(c)
     /\ exit.error # "HTTPError"
     /\ ~OrphanEpisode)
        => exit.code = 0 /\ TablePrinted

\* C9 as stated: when the run reaches display_output, for every series that has
\* an episode the output holds exactly one Series row with the series's name as
\* title; its seen_by is the series's own, and it precedes every Episode row of
\* the series.
C9_AsStated ==
    Displayed =>
        \A i \in SeriesWithEpisodes :
            /\ Cardinality(SeriesRowsTitled(series[i].name)) = 1
            /\ \A k \in SeriesRowsTitled(series[i].name) :
                  /\ output[k][3] = series[i].seen_by
                  /\ \A j \in Rows(KindEpisode) :
                        EpisodeAt(j).series_id = series[i].id => k < j

\* C9 as amended: when the run reaches display_output, the Series rows are
\* these: none for the empty name; for every other name borne by a series that
\* has an episode, exactly one, before every Episode row of a series of that
\* name, with the seen_by of the series of the first episode, in sorted order,
\* of a series of that name, which is the series's own when no other series
\* that has an episode bears the name.
C9_SeriesRows ==
    Displayed =>
        /\ \A i \in SeriesWithEpisodes :
              LET n == series[i].name
              IN  IF n = <<>>
                      THEN SeriesRowsTitled(n) = {}
                      ELSE /\ Cardinality(SeriesRowsTitled(n)) = 1
                           /\ \A k \in SeriesRowsTitled(n) :
                                 /\ output[k][3] = SeriesOf(FirstEpisodeOf(n)).seen_by
                                 /\ UniqueName(i) => output[k][3] = series[i].seen_by
                                 /\ \A j \in EpisodeRowsOfName(n) : k < j
        /\ \A k \in Rows(KindSeries) :
              \E i \in SeriesWithEpisodes : series[i].name = output[k][2]

\* A run that ended normally with two series of different, non-empty names,
\* each with its Series row before its Episode row.
C9_Witness ==
    /\ Displayed
    /\ \E i1, i2 \in SeriesWithEpisodes :
          /\ series[i1].name # series[i2].name
          /\ \A i \in {i1, i2} :
                /\ series[i].name # <<>>
                /\ \E k \in SeriesRowsTitled(series[i].name) :
                      /\ output[k][3] = series[i].seen_by
                      /\ \E j \in EpisodeRowsOfName(series[i].name) : k < j

=============================================================================
